---- MODULE Spec2Model ----
(***************************************************************************)
(* A model of json2csv (src/json2csv/converter.py): the JSON loader, the   *)
(* flattening engine, entity extraction, the normalization engine and the  *)
(* table writer, behind the path guard of src/json2csv/utils.py.           *)
(*                                                                         *)
(* Text (keys, column names, file names, CSV cells) is a sequence of       *)
(* one-character strings, so that concatenation, slicing, splitting and    *)
(* lexicographic sorting are computed as Python computes them.             *)
(* A JSON value is a record [tag, val, items]:                             *)
(*   tag   "num" | "str" | "null" | "bool" | "obj" | "arr"                 *)
(*   val   the text of a scalar (the decimal digits of a number)           *)
(*   items the members [key, value] of an object in iteration order, or    *)
(*         the elements of an array (key unused, left empty)               *)
(* A Python dict built by the program (a flattened row, a table row) is a  *)
(* sequence of members [key, value] in insertion order.                    *)
(***************************************************************************)
EXTENDS Integers, Sequences, FiniteSets, TLC

VARIABLES
    pc,         \* "start" | "loaded" | "done" | "failed": where the call stands
    doc,        \* the top-level JSON value of the input (the object handed to flatten_json)
    mode,       \* the mode argument of convert_json_to_csv
    separator,  \* the separator argument
    json_data,  \* what read_json returned: the sequence of records
    flat,       \* what flatten_json returned
    files,      \* the CSV files written: a sequence of [name, headers, rows]
    dirs,       \* the directories created
    outside,    \* the path arguments that lie outside the allowed directories
    error       \* "none", or the exception the call ended in

vars == <<pc, doc, mode, separator, json_data, flat, files, dirs, outside, error>>

----------------------------------------------------------------------------
(* Text *)

Digits == <<"0", "1", "2", "3", "4", "5", "6", "7", "8", "9">>

\* The characters the model uses, in code-point order (Python compares str by code point).
Ascii ==
    <<" ", "'", ",", ".", "/", "0", "1", "2", "3", "4", "5", "6", "7", "8", "9", ":",
      "F", "N", "T", "[", "]", "_", "a", "b", "c", "d", "e", "f", "g", "h", "i", "j",
      "k", "l", "m", "n", "o", "p", "q", "r", "s", "t", "u", "v", "w", "x", "y", "z",
      "{", "}">>

CharOrd(c) == CHOOSE i \in 1..Len(Ascii) : Ascii[i] = c

RECURSIVE IntToStr(_)
\* str(n) / f"{n}" of a natural number
IntToStr(n) ==
    IF n < 10 THEN <<Digits[n + 1]>>
    ELSE IntToStr(n \div 10) \o <<Digits[(n % 10) + 1]>>

\* s < t for Python str
StrLess(s, t) ==
    \/ /\ Len(s) < Len(t)
       /\ \A i \in 1..Len(s) : s[i] = t[i]
    \/ \E i \in 1..Len(s) :
          /\ i <= Len(t)
          /\ \A j \in 1..(i - 1) : s[j] = t[j]
          /\ CharOrd(s[i]) < CharOrd(t[i])

\* s.startswith(p)
StartsWith(s, p) == Len(p) <= Len(s) /\ SubSeq(s, 1, Len(p)) = p

----------------------------------------------------------------------------
(* JSON values, as json.load builds them *)

Num(n) == [tag |-> "num", val |-> IntToStr(n), items |-> <<>>]
Str(s) == [tag |-> "str", val |-> s, items |-> <<>>]
Null == [tag |-> "null", val |-> <<>>, items |-> <<>>]
PyTrue == [tag |-> "bool", val |-> <<"T", "r", "u", "e">>, items |-> <<>>]
Member(k, v) == [key |-> k, value |-> v]
Obj(members) == [tag |-> "obj", val |-> <<>>, items |-> members]
Arr(elems) ==
    [tag |-> "arr", val |-> <<>>,
     items |-> [i \in 1..Len(elems) |-> Member(<<>>, elems[i])]]

\* isinstance(v, dict), isinstance(v, list)
IsDict(v) == v.tag = "obj"
IsList(v) == v.tag = "arr"

\* IsContainer with the list case forgotten: a list is handled as a scalar
IsContainer_DictOnly(v) == IsDict(v)

\* isinstance(v, (dict, list)); in _flatten, the two branches that loop
IsContainer(v) == IsDict(v) \/ IsList(v)

----------------------------------------------------------------------------
(* Python dicts: insertion-ordered, a repeated key keeps its first position *)

DictKeys(d) == {d[i].key : i \in 1..Len(d)}
DictHas(d, k) == k \in DictKeys(d)
DictGet(d, k) == d[CHOOSE i \in 1..Len(d) : d[i].key = k].value

\* d[k] = v
DictSet(d, k, v) ==
    IF DictHas(d, k)
    THEN [i \in 1..Len(d) |-> IF d[i].key = k THEN Member(k, v) ELSE d[i]]
    ELSE Append(d, Member(k, v))

RECURSIVE DictFromWrites(_, _)
\* the dict after the assignments d[w.key] = w.value, in order
DictFromWrites(d, writes) ==
    IF writes = <<>> THEN d
    ELSE DictFromWrites(DictSet(d, Head(writes).key, Head(writes).value), Tail(writes))

----------------------------------------------------------------------------
(* flatten_json *)

\* the prefix handed down for the value under `key` of a dict (line 57)
DictPrefix(prefix, key, sep) ==
    IF prefix # <<>> THEN prefix \o key \o sep ELSE key \o sep

\* the column of a scalar reached with `prefix`: prefix[:-1] when prefix is not empty
LeafKey(prefix) ==
    IF prefix # <<>> THEN SubSeq(prefix, 1, Len(prefix) - 1) ELSE prefix

RECURSIVE _flatten(_, _, _), _flatten_from(_, _, _, _)
\* The assignments result[...] = ... that _flatten(item, prefix) performs, in order.
_flatten(item, prefix, sep) ==
    IF IsContainer(item) THEN _flatten_from(item, 1, prefix, sep)
    ELSE <<Member(LeafKey(prefix), item)>>

\* the iterations n, n+1, ... of the loop over a dict's items or a list's elements
_flatten_from(item, n, prefix, sep) ==
    IF n > Len(item.items) THEN <<>>
    ELSE LET value == item.items[n].value
             here ==
                 IF IsDict(item)
                 THEN _flatten(value, DictPrefix(prefix, item.items[n].key, sep), sep)
                 ELSE IF IsContainer(value)
                      THEN _flatten(value, prefix \o IntToStr(n - 1) \o sep, sep)
                      ELSE <<Member(prefix \o IntToStr(n - 1), value)>>
         IN  here \o _flatten_from(item, n + 1, prefix, sep)

flatten_json(obj, sep) == DictFromWrites(<<>>, _flatten(obj, <<>>, sep))

----------------------------------------------------------------------------
(* The table writer: csv.DictWriter over sorted headers *)

RECURSIVE SortedKeys(_)
\* sorted(S) for a set of str
SortedKeys(S) ==
    IF S = {} THEN <<>>
    ELSE LET m == CHOOSE x \in S : \A y \in S \ {x} : StrLess(x, y)
         IN  <<m>> \o SortedKeys(S \ {m})

RECURSIVE PyRepr(_), PyReprItems(_, _)
\* repr(v): what str() gives for a dict or a list
PyRepr(v) ==
    CASE v.tag = "str" -> <<"'">> \o v.val \o <<"'">>
      [] v.tag = "null" -> <<"N", "o", "n", "e">>
      [] v.tag = "obj" -> <<"{">> \o PyReprItems(v, 1) \o <<"}">>
      [] v.tag = "arr" -> <<"[">> \o PyReprItems(v, 1) \o <<"]">>
      [] OTHER -> v.val

PyReprItems(v, n) ==
    IF n > Len(v.items) THEN <<>>
    ELSE (IF n > 1 THEN <<",", " ">> ELSE <<>>)
         \o (IF IsDict(v)
             THEN <<"'">> \o v.items[n].key \o <<"'", ":", " ">>
             ELSE <<>>)
         \o PyRepr(v.items[n].value)
         \o PyReprItems(v, n + 1)

\* the text the csv writer puts in a field: None is the empty field, a str is
\* written as it is, anything else through str()
CsvField(v) ==
    CASE v.tag = "null" -> <<>>
      [] v.tag = "str" -> v.val
      [] OTHER -> PyRepr(v)

\* DictWriter.writerow(item): item.get(h, '') for each header, as text
CsvRow(headers, item) ==
    [c \in 1..Len(headers) |->
        IF DictHas(item, headers[c]) THEN CsvField(DictGet(item, headers[c])) ELSE <<>>]

\* AllKeys taken from the first row alone
AllKeys_FirstRow(data) == IF data = <<>> THEN {} ELSE DictKeys(data[1])

\* the union of the rows' keys
AllKeys(data) == UNION {DictKeys(data[i]) : i \in 1..Len(data)}

\* the file that open(path, 'w') + writeheader + writerow for each item leaves
CsvFile(name, headers, data) ==
    [name |-> name, headers |-> headers,
     rows |-> [r \in 1..Len(data) |-> CsvRow(headers, data[r])]]

\* open(path, 'w'): a file of that name is replaced
PutFile(fs, f) ==
    IF \E i \in 1..Len(fs) : fs[i].name = f.name
    THEN [i \in 1..Len(fs) |-> IF fs[i].name = f.name THEN f ELSE fs[i]]
    ELSE Append(fs, f)

\* write_csv(file_path, data), on the files fs
write_csv(fs, name, data) ==
    IF data = <<>> THEN fs
    ELSE PutFile(fs, CsvFile(name, SortedKeys(AllKeys(data)), data))

----------------------------------------------------------------------------
(* read_json *)

\* the input file does not hold JSON text
Malformed == [tag |-> "malformed", val |-> <<>>, items |-> <<>>]

\* read_json without the branch that wraps a single object
read_json_NoWrap(d) ==
    IF d.tag = "malformed" THEN [data |-> <<>>, raised |-> "JSONDecodeError"]
    ELSE IF ~IsList(d) THEN [data |-> <<>>, raised |-> "ValueError"]
    ELSE [data |-> [i \in 1..Len(d.items) |-> d.items[i].value], raised |-> "none"]

\* read_json on a file holding d: the list returned, or the exception raised
read_json(d) ==
    IF d.tag = "malformed" THEN [data |-> <<>>, raised |-> "JSONDecodeError"]
    ELSE IF IsDict(d) THEN [data |-> <<d>>, raised |-> "none"]
    ELSE IF ~IsList(d) THEN [data |-> <<>>, raised |-> "ValueError"]
    ELSE [data |-> [i \in 1..Len(d.items) |-> d.items[i].value], raised |-> "none"]

----------------------------------------------------------------------------
(* convert_to_flattened_csv *)

OutputCsv == <<"o", "u", "t", ".", "c", "s", "v">>
OutputDir == <<"o", "u", "t">>

flattened_data(data, sep) == [i \in 1..Len(data) |-> flatten_json(data[i], sep)]

\* the file convert_to_flattened_csv writes: it is opened whatever the data
convert_to_flattened_csv(fs, data, sep) ==
    LET fd == flattened_data(data, sep)
    IN  PutFile(fs, CsvFile(OutputCsv, SortedKeys(AllKeys(fd)), fd))

----------------------------------------------------------------------------
(* extract_entity_structure *)

Root == <<"r", "o", "o", "t">>
IdKey == <<"i", "d">>
RootIdKey == Root \o <<"_">> \o IdKey
DotCsv == <<".", "c", "s", "v">>

\* value and value[0] is a dict, for a list
IsListOfObjects(v) == IsList(v) /\ v.items # <<>> /\ IsDict(v.items[1].value)

\* the keys of the dict o whose values are neither dict nor list
ScalarKeys(o) == {o.items[n].key : n \in {m \in 1..Len(o.items) : ~IsContainer(o.items[m].value)}}

RECURSIVE EntityOrder(_, _, _, _)
\* The keys of `entities` in insertion order after the items i.. (from the n-th
\* key of item i): "root" first, then each key holding a dict or a list of objects.
EntityOrder(data, i, n, names) ==
    IF i > Len(data) THEN names
    ELSE IF n > Len(data[i].items) THEN EntityOrder(data, i + 1, 1, names)
    ELSE LET key == data[i].items[n].key
             value == data[i].items[n].value
             isEntity == IsDict(value) \/ IsListOfObjects(value)
             seen == \E e \in 1..Len(names) : names[e] = key
         IN  EntityOrder(data, i, n + 1,
                         IF isEntity /\ ~seen THEN Append(names, key) ELSE names)

\* entities[name]["fields"] before sorting
EntityFields(data, name) ==
    UNION {
        LET item == data[i]
        IN  UNION {
                LET key == item.items[n].key
                    value == item.items[n].value
                IN  IF IsDict(value)
                    THEN (IF key = name THEN ScalarKeys(value) ELSE {})
                    ELSE IF IsListOfObjects(value)
                    THEN (IF key = name THEN ScalarKeys(value.items[1].value) ELSE {})
                    ELSE (IF name = Root THEN {key} ELSE {})
                : n \in 1..Len(item.items)}
        : i \in 1..Len(data)}

\* extract_entity_structure(json_data): the entities in order, each with its
\* sorted fields; item.items() raises AttributeError on an item that is no dict.
extract_entity_structure(data) ==
    IF \E i \in 1..Len(data) : ~IsDict(data[i])
    THEN [entities |-> <<>>, raised |-> "AttributeError"]
    ELSE LET names == EntityOrder(data, 1, 1, <<Root>>)
         IN  [entities |-> [e \in 1..Len(names) |->
                               [name |-> names[e],
                                fields |-> SortedKeys(EntityFields(data, names[e]))]],
              raised |-> "none"]

----------------------------------------------------------------------------
(* convert_to_normalized_csvs *)

RECURSIVE RootRow(_, _, _)
\* lines 177-180: row = {"id": i + 1}, then row[key] = value for each scalar value
\* of the item, from its n-th key on
RootRow(row, item, n) ==
    IF n > Len(item.items) THEN row
    ELSE LET key == item.items[n].key
             value == item.items[n].value
         IN  RootRow(IF ~IsContainer(value) THEN DictSet(row, key, value) ELSE row,
                     item, n + 1)

\* the generated primary key of the record at position i (1-based): i0 + 1
RootKey(i) == Num(i)

root_data(data) ==
    [i \in 1..Len(data) |-> RootRow(<<Member(IdKey, RootKey(i))>>, data[i], 1)]

\* lines 198 and 206: row = {"id": len(entity_data) + 1, "root_id": i + 1}
NewRow(entity_data, i) ==
    <<Member(IdKey, Num(Len(entity_data) + 1)), Member(RootIdKey, Num(i))>>

RECURSIVE CopyFields(_, _, _, _)
\* lines 199-201 and 207-209 for a dict: row[field] = value[field] for each field
\* of the entity that the dict has
CopyFields(row, fields, n, value) ==
    IF n > Len(fields) THEN row
    ELSE CopyFields(IF DictHas(value.items, fields[n])
                    THEN DictSet(row, fields[n], DictGet(value.items, fields[n]))
                    ELSE row,
                    fields, n + 1, value)

\* t in s, for two str
IsSubstring(t, s) ==
    \E a \in 1..(Len(s) + 1) :
        a + Len(t) - 1 <= Len(s) /\ SubSeq(s, a, a + Len(t) - 1) = t

\* Whether lines 207-209 raise TypeError on an element that is no dict: `field in
\* sub_item` raises on a number, a bool or None; on a str or a list it is a
\* membership test, and sub_item[field] raises when it is true.
FieldLookupRaises(fields, sub_item) ==
    /\ fields # <<>>
    /\ CASE sub_item.tag = "str" ->
                \E n \in 1..Len(fields) : IsSubstring(fields[n], sub_item.val)
         [] sub_item.tag = "arr" ->
                \E n \in 1..Len(fields), m \in 1..Len(sub_item.items) :
                    sub_item.items[m].value = Str(fields[n])
         [] OTHER -> TRUE

RECURSIVE SubItemRows(_, _, _, _, _)
\* lines 205-210: the loop over the elements of a list of objects, from the j-th
SubItemRows(acc, fields, value, i, j) ==
    IF j > Len(value.items) THEN [data |-> acc, raised |-> "none"]
    ELSE LET sub_item == value.items[j].value
         IN  IF IsDict(sub_item)
             THEN SubItemRows(Append(acc, CopyFields(NewRow(acc, i), fields, 1, sub_item)),
                              fields, value, i, j + 1)
             ELSE IF FieldLookupRaises(fields, sub_item)
             THEN [data |-> acc, raised |-> "TypeError"]
             ELSE SubItemRows(Append(acc, NewRow(acc, i)), fields, value, i, j + 1)

\* line 196: the nested object gets a row
IsOneToOne(value) == IsDict(value)

RECURSIVE EntityData(_, _, _, _, _)
\* lines 192-210: entity_data for one entity, from the i-th item on
EntityData(acc, name, fields, data, i) ==
    IF i > Len(data) THEN [data |-> acc, raised |-> "none"]
    ELSE IF ~DictHas(data[i].items, name) THEN EntityData(acc, name, fields, data, i + 1)
    ELSE LET value == DictGet(data[i].items, name)
         IN  IF IsOneToOne(value)
             THEN EntityData(Append(acc, CopyFields(NewRow(acc, i), fields, 1, value)),
                             name, fields, data, i + 1)
             ELSE IF IsListOfObjects(value)
             THEN LET sub == SubItemRows(acc, fields, value, i, 1)
                  IN  IF sub.raised # "none" THEN sub
                      ELSE EntityData(sub.data, name, fields, data, i + 1)
             ELSE EntityData(acc, name, fields, data, i + 1)

RECURSIVE WriteEntities(_, _, _, _)
\* lines 188-214: each entity but "root", in the order of `entities`
WriteEntities(fs, entities, e, data) ==
    IF e > Len(entities) THEN [files |-> fs, raised |-> "none"]
    ELSE IF entities[e].name = Root THEN WriteEntities(fs, entities, e + 1, data)
    ELSE LET ed == EntityData(<<>>, entities[e].name, entities[e].fields, data, 1)
         IN  IF ed.raised # "none" THEN [files |-> fs, raised |-> ed.raised]
             ELSE WriteEntities(write_csv(fs, entities[e].name \o DotCsv, ed.data),
                                entities, e + 1, data)

\* convert_to_normalized_csvs(json_data, output_dir), on the files fs: the files
\* it leaves and the exception it ends in
convert_to_normalized_csvs(fs, data) ==
    LET ext == extract_entity_structure(data)
    IN  IF ext.raised # "none" THEN [files |-> fs, raised |-> ext.raised]
        ELSE WriteEntities(write_csv(fs, Root \o DotCsv, root_data(data)),
                           ext.entities, 1, data)

----------------------------------------------------------------------------
(* secure_paths (utils.py) *)

PathWord == <<"p", "a", "t", "h">>

\* the parameters of the decorated functions that are handed a str, each with
\* the place its argument names: the input file or the output location
FilePath(place) ==
    [name |-> <<"f", "i", "l", "e", "_">> \o PathWord, arg |-> place]
OutputPath(place) ==
    [name |-> <<"o", "u", "t", "p", "u", "t", "_">> \o PathWord, arg |-> place]
OutputDirParam(place) ==
    [name |-> <<"o", "u", "t", "p", "u", "t", "_", "d", "i", "r">>, arg |-> place]
SeparatorParam ==
    [name |-> <<"s", "e", "p", "a", "r", "a", "t", "o", "r">>, arg |-> "separator"]

\* Whether the wrapper raises ValueError before calling the function: some
\* parameter whose name holds "path" is handed a place outside the current
\* directory and the temporary directory.
secure_paths(params, out) ==
    \E n \in 1..Len(params) :
        IsSubstring(PathWord, params[n].name) /\ params[n].arg \in out

\* convert_to_normalized_csvs after os.makedirs: each write_csv(file_path, data)
\* goes through secure_paths with a file_path under output_dir, the first of
\* them right after extract_entity_structure and the root rows
normalized_tables(fs, data, out) ==
    LET ext == extract_entity_structure(data)
    IN  IF ext.raised # "none" THEN [files |-> fs, raised |-> ext.raised]
        ELSE IF secure_paths(<<FilePath("output")>>, out)
        THEN [files |-> fs, raised |-> "ValueError"]
        ELSE convert_to_normalized_csvs(fs, data)

----------------------------------------------------------------------------
(* The inputs *)

MaxRecs == 2    \* records in the input array
MaxLen == 2     \* elements of an array inside a record handed to flatten_json

KA == <<"a">>
KB == <<"b">>
KAB == <<"a", "/", "b">>
KT == <<"t">>
KX == <<"x">>

Separators == {<<"/">>, <<"_", "_">>}
Modes == {"flattened", "normalized", "invalid_mode"}
\* the places a path argument names: the input file, the output file or directory
Places == {"input", "output"}

SeqsUpTo(S, n) == UNION {[1..m -> S] : m \in 0..n}

Obj1(k, v) == Obj(<<Member(k, v)>>)
Obj2(k1, v1, k2, v2) == Obj(<<Member(k1, v1), Member(k2, v2)>>)

\* objects of at most two fields, in either order, over the keys K and the values V
ObjectsOver(K, V) ==
    {Obj(<<>>)}
    \cup {Obj1(k, v) : k \in K, v \in V}
    \cup {Obj2(k[1], v[1], k[2], v[2]) : k \in {q \in K \X K : q[1] # q[2]}, v \in V \X V}

ArraysOver(V, n) == {Arr(es) : es \in SeqsUpTo(V, n)}

\* what flatten_json is handed: scalars, empty containers, and objects and arrays
\* of them, nested twice
FlattenKeys == {KA, KB, KAB}
Leaves == {Num(1), Null, Obj(<<>>), Arr(<<>>)}
Level1 == Leaves \cup ObjectsOver(FlattenKeys, Leaves) \cup ArraysOver(Leaves, MaxLen)
FlattenInputs == Level1 \cup ObjectsOver(FlattenKeys, Level1)

\* the records convert_to_normalized_csvs is handed: an optional id and an
\* optional field t holding a scalar, an object or an array; and a record whose
\* field is named root
Elems == {Num(1), Obj(<<>>), Obj1(KX, Num(1))}
NestedObjects ==
    {Obj(<<>>), Obj1(KX, Num(1)), Obj1(IdKey, Num(1)), Obj1(RootIdKey, Num(2)),
     Obj1(KX, Obj1(KX, Num(1)))}
NestedArrays == {Arr(<<>>)} \cup {Arr(<<e>>) : e \in Elems} \cup {Arr(<<e[1], e[2]>>) : e \in Elems \X Elems}
NestedValues == {Num(2)} \cup NestedObjects \cup NestedArrays
NormalizedRecords ==
    {Obj(i \o t) :
        i \in {<<>>, <<Member(IdKey, Num(1))>>},
        t \in {<<>>} \cup {<<Member(KT, v)>> : v \in NestedValues}}
    \cup {Obj1(Root, Obj1(KX, Num(1)))}
NormalizedInputs == SeqsUpTo(NormalizedRecords, MaxRecs)

\* the input files of convert_json_to_csv
FileRecords ==
    {Obj(<<>>), Obj1(KA, Num(1)), Obj1(KB, Null), Obj1(KA, Obj1(KB, Num(1))),
     Obj1(KA, Arr(<<Num(1)>>)), Obj1(KA, Arr(<<Obj1(KB, Num(1))>>)),
     Obj2(KA, Obj(<<>>), KB, Num(2)), Obj2(KB, Num(1), KAB, Str(KX))}
FileElements == FileRecords \cup {Num(1), Null, Arr(<<Num(1)>>)}
FileDocs ==
    {Malformed, Num(1), Null, Str(KX), PyTrue}
    \cup FileRecords
    \cup ArraysOver(FileElements, MaxRecs)

----------------------------------------------------------------------------
(* The calls *)

\* json_data = read_json(input_path)
ReadJson ==
    /\ pc = "start"
    /\ LET r == IF secure_paths(<<FilePath("input")>>, outside)
                THEN [data |-> <<>>, raised |-> "ValueError"]
                ELSE read_json(doc)
       IN  /\ json_data' = r.data
           /\ error' = r.raised
           /\ pc' = IF r.raised = "none" THEN "loaded" ELSE "failed"
    /\ UNCHANGED <<doc, mode, separator, flat, files, dirs, outside>>

\* convert_to_flattened_csv(json_data, output_path, separator)
ConvertToFlattenedCsv ==
    /\ pc = "loaded"
    /\ mode = "flattened"
    /\ IF secure_paths(<<OutputPath("output"), SeparatorParam>>, outside)
       THEN /\ error' = "ValueError"
            /\ pc' = "failed"
            /\ UNCHANGED files
       ELSE /\ files' = convert_to_flattened_csv(files, json_data, separator)
            /\ pc' = "done"
            /\ UNCHANGED error
    /\ UNCHANGED <<doc, mode, separator, json_data, flat, dirs, outside>>

\* convert_to_normalized_csvs(json_data, output_dir)
ConvertToNormalizedCsvs ==
    /\ pc = "loaded"
    /\ mode = "normalized"
    /\ IF secure_paths(<<OutputDirParam("output")>>, outside)
       THEN /\ error' = "ValueError"
            /\ pc' = "failed"
            /\ UNCHANGED <<files, dirs>>
       ELSE /\ dirs' = dirs \cup {OutputDir}
            /\ LET r == normalized_tables(files, json_data, outside)
               IN  /\ files' = r.files
                   /\ error' = r.raised
                   /\ pc' = IF r.raised = "none" THEN "done" ELSE "failed"
    /\ UNCHANGED <<doc, mode, separator, json_data, flat, outside>>

\* the mode checked only after the output directory is made
InvalidMode_AfterMakedirs ==
    /\ pc = "loaded"
    /\ mode \notin {"flattened", "normalized"}
    /\ dirs' = dirs \cup {OutputDir}
    /\ error' = "ValueError"
    /\ pc' = "failed"
    /\ UNCHANGED <<doc, mode, separator, json_data, flat, files, outside>>

\* convert_json_to_csv, line 277: any other mode
InvalidMode ==
    /\ pc = "loaded"
    /\ mode \notin {"flattened", "normalized"}
    /\ error' = "ValueError"
    /\ pc' = "failed"
    /\ UNCHANGED <<doc, mode, separator, json_data, flat, files, dirs, outside>>

\* flatten_json(doc, separator)
FlattenJson ==
    /\ pc = "start"
    /\ flat' = flatten_json(doc, separator)
    /\ pc' = "done"
    /\ UNCHANGED <<doc, mode, separator, json_data, files, dirs, outside, error>>

----------------------------------------------------------------------------
(* The specifications *)

\* convert_json_to_csv(input_path, output_path, mode, separator) on a file
Init ==
    /\ pc = "start"
    /\ doc \in FileDocs
    /\ mode \in Modes
    /\ separator \in Separators
    /\ json_data = <<>>
    /\ flat = <<>>
    /\ files = <<>>
    /\ dirs = {}
    /\ outside \in SUBSET Places
    /\ error = "none"

Next == ReadJson \/ ConvertToFlattenedCsv \/ ConvertToNormalizedCsvs \/ InvalidMode

Spec == Init /\ [][Next]_vars

\* flatten_json(obj, separator) on its own
InitFlatten ==
    /\ pc = "start"
    /\ doc \in FlattenInputs
    /\ mode = "flattened"
    /\ separator \in Separators
    /\ json_data = <<>>
    /\ flat = <<>>
    /\ files = <<>>
    /\ dirs = {}
    /\ outside = {}
    /\ error = "none"

NextFlatten == FlattenJson

SpecFlatten == InitFlatten /\ [][NextFlatten]_vars

\* convert_to_normalized_csvs(json_data, output_dir) on its own
InitNormalized ==
    /\ pc = "loaded"
    /\ json_data \in NormalizedInputs
    /\ doc = Arr(json_data)
    /\ mode = "normalized"
    /\ separator = <<"/">>
    /\ flat = <<>>
    /\ files = <<>>
    /\ dirs = {}
    /\ outside = {}
    /\ error = "none"

NextNormalized == ConvertToNormalizedCsvs

SpecNormalized == InitNormalized /\ [][NextNormalized]_vars

----------------------------------------------------------------------------
(* What the properties speak of *)

HasFile(name) == \E i \in 1..Len(files) : files[i].name = name
FileNamed(name) == files[CHOOSE i \in 1..Len(files) : files[i].name = name]
RootCsv == Root \o DotCsv

HasColumn(f, col) == \E c \in 1..Len(f.headers) : f.headers[c] = col
\* the fields of the rows of f in column col
Column(f, col) ==
    LET c == CHOOSE c \in 1..Len(f.headers) : f.headers[c] = col
    IN  [r \in 1..Len(f.rows) |-> f.rows[r][c]]

\* an object or an array, by its JSON type
IsObjectOrArray(v) == v.tag \in {"obj", "arr"}

RECURSIVE Join(_, _)
\* k1 + sep + k2 + ... + sep + kn
Join(path, sep) ==
    IF path = <<>> THEN <<>>
    ELSE IF Len(path) = 1 THEN path[1]
    ELSE path[1] \o sep \o Join(Tail(path), sep)

\* the key or the 0-based index that leads to the n-th member of a container
Step(v, n) == IF IsDict(v) THEN v.items[n].key ELSE IntToStr(n - 1)

RECURSIVE Leaves_(_, _)
\* the scalar leaves of v, each with the key/index path that reaches it
Leaves_(v, path) ==
    IF IsObjectOrArray(v)
    THEN UNION {Leaves_(v.items[n].value, Append(path, Step(v, n))) : n \in 1..Len(v.items)}
    ELSE {[path |-> path, value |-> v]}

RECURSIVE EmptyContainers(_, _)
\* the paths of the empty objects and empty arrays of v
EmptyContainers(v, path) ==
    IF ~IsObjectOrArray(v) THEN {}
    ELSE IF v.items = <<>> THEN {path}
    ELSE UNION {EmptyContainers(v.items[n].value, Append(path, Step(v, n))) :
                   n \in 1..Len(v.items)}

RECURSIVE ObjectKeys(_)
\* the keys of the objects of v, at every depth
ObjectKeys(v) ==
    IF ~IsObjectOrArray(v) THEN {}
    ELSE (IF IsDict(v) THEN DictKeys(v.items) ELSE {})
         \cup UNION {ObjectKeys(v.items[n].value) : n \in 1..Len(v.items)}

RECURSIVE HasArray(_)
HasArray(v) ==
    IsList(v) \/ (IsDict(v) /\ \E n \in 1..Len(v.items) : HasArray(v.items[n].value))

Chars(s) == {s[i] : i \in 1..Len(s)}

RECURSIVE Split(_, _)
\* s.split(sep), for a separator that is not empty
Split(s, sep) ==
    LET hits == {a \in 1..Len(s) : a + Len(sep) - 1 <= Len(s) /\ SubSeq(s, a, a + Len(sep) - 1) = sep}
    IN  IF hits = {} THEN <<s>>
        ELSE LET a == CHOOSE h \in hits : \A g \in hits : h <= g
             IN  <<SubSeq(s, 1, a - 1)>> \o Split(SubSeq(s, a + Len(sep), Len(s)), sep)

----------------------------------------------------------------------------
(* Properties of the normalized tables *)

\* the tables written besides root.csv
ChildFiles == {files[i] : i \in {j \in 1..Len(files) : files[j].name # RootCsv}}

\* C1: normalized referential integrity. After convert_to_normalized_csvs, the
\* root_id of every row of every non-root table is the id of exactly one row of
\* root.csv, whatever id and root_id fields the input carries.
C1_ReferentialIntegrity ==
    pc = "done" =>
        \A f \in ChildFiles :
            /\ HasFile(RootCsv)
            /\ HasColumn(f, RootIdKey)
            /\ LET pk == Column(FileNamed(RootCsv), IdKey)
                   fk == Column(f, RootIdKey)
               IN  \A r \in 1..Len(fk) :
                       Cardinality({q \in 1..Len(pk) : pk[q] = fk[r]}) = 1

\* C2: primary key uniqueness. In every table written by
\* convert_to_normalized_csvs, root and child, the id values of the rows are
\* pairwise distinct.
C2_PrimaryKeyUnique ==
    pc = "done" =>
        \A i \in 1..Len(files) :
            LET pk == Column(files[i], IdKey)
            IN  \A r, q \in 1..Len(pk) : r # q => pk[r] # pk[q]

\* the rows of table `name` whose root_id is that of the i-th record
RowsOf(name, i) ==
    IF ~HasFile(name \o DotCsv) THEN {}
    ELSE LET fk == Column(FileNamed(name \o DotCsv), RootIdKey)
         IN  {r \in 1..Len(fk) : fk[r] = IntToStr(i)}

IsArrayOfScalars(v) ==
    IsList(v) /\ v.items # <<>> /\ \A n \in 1..Len(v.items) : ~IsObjectOrArray(v.items[n].value)

\* C7: array of scalars in normalized mode. For every record whose top-level key
\* k holds a non-empty array of scalars, table k has one row per element of the
\* array, each with the root_id of that record and the element's value.
C7_ScalarArrayRows ==
    pc = "done" =>
        \A i \in 1..Len(json_data) :
            \A n \in 1..Len(json_data[i].items) :
                LET k == json_data[i].items[n].key
                    v == json_data[i].items[n].value
                IN  IsArrayOfScalars(v) =>
                        /\ HasFile(k \o DotCsv)
                        /\ Cardinality(RowsOf(k, i)) = Len(v.items)

\* the rows the i-th record owes to table k: one for a non-empty object, one
\* for each element of an array of objects
RowsOwed(k, i) ==
    IF ~DictHas(json_data[i].items, k) THEN 0
    ELSE LET v == DictGet(json_data[i].items, k)
         IN  IF IsDict(v) THEN (IF v.items = <<>> THEN 0 ELSE 1)
             ELSE IF IsListOfObjects(v) THEN Len(v.items)
             ELSE 0

RECURSIVE Sum(_, _)
Sum(f, n) == IF n = 0 THEN 0 ELSE f[n] + Sum(f, n - 1)

RowCount(name) == IF HasFile(name) THEN Len(FileNamed(name).rows) ELSE 0

\* C8: an empty nested object is skipped in normalized mode. The number of rows
\* of table k is the number of records where k holds a non-empty object, plus
\* the number of elements of the arrays of objects under k; a record whose k is
\* {} adds no row.
C8_EmptyObjectSkipped ==
    pc = "done" =>
        \A k \in UNION {DictKeys(json_data[i].items) : i \in 1..Len(json_data)} :
            RowCount(k \o DotCsv) =
                Sum([i \in 1..Len(json_data) |-> RowsOwed(k, i)], Len(json_data))

----------------------------------------------------------------------------
(* Properties of flatten_json *)

\* the columns of the result, each with its value
Columns(d) == {<<d[n].key, d[n].value>> : n \in 1..Len(d)}

\* C4: flatten column naming. flatten_json maps each scalar leaf reached by the
\* path k1, ..., kn to the column k1 + separator + ... + separator + kn with the
\* leaf's value, and produces no other column, for a separator of any length.
C4_ColumnNaming ==
    pc = "done" =>
        Columns(flat) = {<<Join(l.path, separator), l.value>> : l \in Leaves_(doc, <<>>)}

\* no column of the result is the path P or lies under it
NoColumnAt(P) ==
    LET p == Join(P, separator)
    IN  /\ P = <<>> => flat = <<>>
        /\ \A k \in DictKeys(flat) : k # p /\ ~StartsWith(k, p \o separator)

KeysAvoidSeparator == \A k \in ObjectKeys(doc) : Chars(k) \cap Chars(separator) = {}

C6_RoundTrip ==
    (pc = "done" /\ IsDict(doc) /\ ~HasArray(doc)) =>
        /\ \A n \in 1..Len(flat) :
               [path |-> Split(flat[n].key, separator), value |-> flat[n].value]
                   \in Leaves_(doc, <<>>)
        /\ Len(flat) = Cardinality(Leaves_(doc, <<>>))

----------------------------------------------------------------------------
(* Properties of the loader *)

IsJsonScalar(v) == v.tag \in {"num", "str", "bool", "null"}

\* C9: the loader rejects arrays with non-object elements. When the top-level
\* value is an array with an element that is not an object, read_json does not
\* return a record sequence.
C9_RejectsNonObjectElements ==
    pc = "loaded" =>
        ~(IsList(doc) /\ \E n \in 1..Len(doc.items) : ~IsDict(doc.items[n].value))

----------------------------------------------------------------------------
(* Properties of the flattened table *)

\* C3: column union completeness. The header written by
\* convert_to_flattened_csv is, as a set, the union of the key sets of
\* flatten_json(record, separator) over the records; each row holds the
\* record's flattened value under every key it has and an empty field under
\* every header column it lacks.
C3_ColumnUnion ==
    (pc = "done" /\ mode = "flattened") =>
        /\ HasFile(OutputCsv)
        /\ LET f == FileNamed(OutputCsv)
               row(i) == flatten_json(json_data[i], separator)
           IN  /\ {f.headers[c] : c \in 1..Len(f.headers)}
                      = UNION {DictKeys(row(i)) : i \in 1..Len(json_data)}
               /\ Len(f.rows) = Len(json_data)
               /\ \A i \in 1..Len(json_data) :
                      /\ Len(f.rows[i]) = Len(f.headers)
                      /\ \A c \in 1..Len(f.headers) :
                             f.rows[i][c] =
                                 IF DictHas(row(i), f.headers[c])
                                 THEN CsvField(DictGet(row(i), f.headers[c]))
                                 ELSE <<>>

\* C3's case: two records with different flattened keys, one of them nested,
\* were written, and the second row has an empty field for a column it lacks
C3_Witness ==
    /\ pc = "done"
    /\ mode = "flattened"
    /\ Len(json_data) = 2
    /\ HasFile(OutputCsv)
    /\ LET f == FileNamed(OutputCsv)
       IN  /\ Len(f.headers) >= 2
           /\ \E c \in 1..Len(f.headers) :
                  /\ Len(f.headers[c]) > 1
                  /\ f.rows[1][c] # <<>>
                  /\ ~DictHas(flatten_json(json_data[2], separator), f.headers[c])
                  /\ f.rows[2][c] = <<>>

----------------------------------------------------------------------------
(* Properties of convert_json_to_csv *)

\* C11: a failed conversion leaves no output. When convert_json_to_csv ends in
\* an error because the input is malformed JSON, because the top-level value is
\* neither an object nor an array, or because the mode is neither "flattened"
\* nor "normalized", no file has been written and no directory created.
C11_FailedConversionLeavesNoOutput ==
    (/\ pc = "failed"
     /\ \/ doc = Malformed
        \/ IsJsonScalar(doc)
        \/ mode \notin {"flattened", "normalized"}) =>
        files = <<>> /\ dirs = {}

\* C11's case: records were loaded, the mode was refused with ValueError, and
\* the allowed output location holds nothing
C11_Witness ==
    /\ pc = "failed"
    /\ error = "ValueError"
    /\ mode \notin {"flattened", "normalized"}
    /\ outside = {}
    /\ Len(json_data) = 2
    /\ files = <<>>
    /\ dirs = {}

----------------------------------------------------------------------------
(* Properties of the rows of the normalized tables *)

RECURSIVE ObjectsUnder(_, _)
\* what the records i.. hold under the top-level key k, in input order: a nested
\* object, or each element of an array of objects
ObjectsUnder(k, i) ==
    IF i > Len(json_data) THEN <<>>
    ELSE LET v == IF DictHas(json_data[i].items, k)
                  THEN DictGet(json_data[i].items, k) ELSE Null
         IN  (IF v.tag = "obj" THEN <<[value |-> v, nested |-> TRUE]>>
              ELSE IF IsListOfObjects(v)
              THEN [j \in 1..Len(v.items) |-> [value |-> v.items[j].value, nested |-> FALSE]]
              ELSE <<>>)
             \o ObjectsUnder(k, i + 1)

\* the members of the object o whose value is a scalar
ScalarMembers(o) ==
    {o.items[n] : n \in {m \in 1..Len(o.items) : ~IsObjectOrArray(o.items[m].value)}}

\* row j of table f holds every scalar field of the object o, with o's value
HasScalarFields(f, j, o) ==
    \A m \in ScalarMembers(o) :
        HasColumn(f, m.key) /\ Column(f, m.key)[j] = CsvField(m.value)

\* the top-level keys that hold an object in some record
ObjectHoldingKeys ==
    {k \in UNION {DictKeys(json_data[i].items) : i \in 1..Len(json_data)} :
        \E i \in 1..Len(json_data) :
            DictHas(json_data[i].items, k) /\ DictGet(json_data[i].items, k).tag = "obj"}

\* C12: root table shape. For a non-empty sequence of records, root.csv has one
\* row per record, in input order, and row k holds every top-level scalar field
\* of record k with its value; the table of a key that holds an object has, in
\* input order, one row per record where it does (next to the rows of the
\* elements of arrays of objects under that key), with the object's scalar fields.
C12_RootTableShape ==
    (pc = "done" /\ json_data # <<>>) =>
        /\ HasFile(RootCsv)
        /\ Len(FileNamed(RootCsv).rows) = Len(json_data)
        /\ \A i \in 1..Len(json_data) : HasScalarFields(FileNamed(RootCsv), i, json_data[i])
        /\ \A k \in ObjectHoldingKeys :
               /\ HasFile(k \o DotCsv)
               /\ LET f == FileNamed(k \o DotCsv)
                      owed == ObjectsUnder(k, 1)
                  IN  /\ Len(f.rows) = Len(owed)
                      /\ \A j \in 1..Len(owed) :
                             owed[j].nested => HasScalarFields(f, j, owed[j].value)

----------------------------------------------------------------------------
(* Properties of the files written *)

\* C13: no file for an empty row-set. In both modes a table without rows
\* produces no CSV file: converting the empty array writes no file, and every
\* CSV file written holds at least one data row.
C13_NoFileForEmptyRowSet ==
    pc \in {"done", "failed"} =>
        /\ (IsList(doc) /\ doc.items = <<>>) => files = <<>>
        /\ \A i \in 1..Len(files) : files[i].rows # <<>>

----------------------------------------------------------------------------
(* Properties of nesting below the first level *)

\* the objects held by a field of an object that a top-level key of the i-th
\* record holds: the outer key, the inner key and the inner object
InnerObjects(i) ==
    UNION {
        LET k1 == json_data[i].items[n].key
            o1 == json_data[i].items[n].value
        IN  IF o1.tag # "obj" THEN {}
            ELSE {[outer |-> k1, inner |-> o1.items[m].key, value |-> o1.items[m].value] :
                     m \in {q \in 1..Len(o1.items) : o1.items[q].value.tag = "obj"}}
        : n \in 1..Len(json_data[i].items)}

\* C14: recursive normalization. An object nested inside a nested object gets a
\* row in the table of its own key, holding its scalar fields, and a foreign
\* key of that row is the primary key of the row of the enclosing object; so no
\* nested scalar is absent from every table.
C14_RecursiveNormalization ==
    pc = "done" =>
        \A i \in 1..Len(json_data) :
            \A o \in InnerObjects(i) :
                /\ HasFile(o.outer \o DotCsv)
                /\ HasFile(o.inner \o DotCsv)
                /\ LET parent == FileNamed(o.outer \o DotCsv)
                       child == FileNamed(o.inner \o DotCsv)
                   IN  \E q \in RowsOf(o.outer, i), r \in 1..Len(child.rows) :
                           /\ HasScalarFields(child, r, o.value)
                           /\ \E c \in 1..Len(child.headers) :
                                  /\ child.headers[c] # IdKey
                                  /\ child.rows[r][c] = Column(parent, IdKey)[q]

----------------------------------------------------------------------------
(* Properties of the rows of arrays of objects *)

\* C15: child rows carry all own scalar fields. Every row emitted for an
\* object, a nested object or any element of an array of objects, holds every
\* scalar field of that object, also a field the first element of the array
\* lacks.
C15_OwnScalarFields ==
    pc = "done" =>
        \A k \in UNION {DictKeys(json_data[i].items) : i \in 1..Len(json_data)} \ {Root} :
            LET owed == ObjectsUnder(k, 1)
            IN  owed # <<>> =>
                    /\ HasFile(k \o DotCsv)
                    /\ Len(FileNamed(k \o DotCsv).rows) = Len(owed)
                    /\ \A j \in 1..Len(owed) :
                           owed[j].value.tag = "obj" =>
                               HasScalarFields(FileNamed(k \o DotCsv), j, owed[j].value)

----------------------------------------------------------------------------
(* Properties of the header of the normalized tables *)

\* C16: normalized header order. The header of every table written in
\* normalized mode starts with the primary key column id, followed by the
\* foreign key column root_id in a table other than root.csv, whatever the
\* names of the scalar fields; the header is not sorted.
C16_PrimaryKeyColumnFirst ==
    (mode = "normalized" /\ pc \in {"done", "failed"}) =>
        \A i \in 1..Len(files) :
            /\ files[i].headers[1] = IdKey
            /\ files[i].name # RootCsv =>
                   Len(files[i].headers) >= 2 /\ files[i].headers[2] = RootIdKey

----------------------------------------------------------------------------
(* Properties of arrays mixing objects and scalars *)

\* an array with an element that is an object and an element that is a scalar
IsMixedArray(v) ==
    /\ v.tag = "arr"
    /\ \E n \in 1..Len(v.items) : v.items[n].value.tag = "obj"
    /\ \E n \in 1..Len(v.items) : ~IsObjectOrArray(v.items[n].value)

\* the number of elements of the array v that are objects
ObjectElements(v) == Cardinality({n \in 1..Len(v.items) : v.items[n].value.tag = "obj"})

\* C17: heterogeneous arrays are not rejected. For records whose top-level key
\* holds an array mixing objects and scalars, in either order, normalization
\* ends without raising, and every object element has a row in the table of
\* the key, linked to its record.
C17_HeterogeneousArraysAccepted ==
    (/\ pc \in {"done", "failed"}
     /\ \A i \in 1..Len(json_data) : json_data[i].tag = "obj"
     /\ \E i \in 1..Len(json_data) :
            \E n \in 1..Len(json_data[i].items) :
                IsMixedArray(json_data[i].items[n].value)) =>
        /\ pc = "done"
        /\ error = "none"
        /\ \A i \in 1..Len(json_data) :
               \A n \in 1..Len(json_data[i].items) :
                   LET k == json_data[i].items[n].key
                       v == json_data[i].items[n].value
                   IN  IsMixedArray(v) => Cardinality(RowsOf(k, i)) >= ObjectElements(v)

----------------------------------------------------------------------------
(* Properties of secure_paths *)

\* C18: the path guard precedes every filesystem effect. A call whose input
\* path lies outside the allowed directories ends in ValueError with nothing
\* read; a conversion whose output location lies outside them ends in an error
\* with no file written and no directory created.
C18_PathGuardPrecedesEffects ==
    /\ ("input" \in outside /\ pc # "start") =>
           /\ pc = "failed" /\ error = "ValueError"
           /\ json_data = <<>> /\ files = <<>> /\ dirs = {}
    /\ ("output" \in outside /\ pc \in {"done", "failed"}) =>
           pc = "failed" /\ files = <<>> /\ dirs = {}

====
